---- MODULE Spec2Model ----
(***************************************************************************)
(* A model of pocovidnet/evaluate_video.py: one VideoEvaluator instance,   *)
(* its per-video state (image_arr, predictions, dropout_evaluator) and its *)
(* public operations __call__, cam_important_frames, important_frames,     *)
(* get_uncertainty and make_dropout_evaluator.                             *)
(*                                                                         *)
(* Conventions.  Python lists and numpy axes are TLA+ sequences; an index  *)
(* VALUE (a frame index, class_idx, model_idx) is 0-based as in the code   *)
(* and is read with At(s, i) == s[i + 1].  A probability is an integer     *)
(* number of percent.  np.mean over the model axis is kept exact as the    *)
(* pair (sum, number of models): mean > t is decided as sum > t * n.       *)
(* The external collaborators (cv2, the keras models, compute_cam's CAM    *)
(* routines, the augmentor, overlay_precision_gauge, confidence_to_        *)
(* precision) are symbolic terms of their arguments, or nondeterministic   *)
(* inputs of the action that calls them.                                   *)
(***************************************************************************)
EXTENDS Integers, Sequences, FiniteSets, TLC

\* The instance: self.image_arr, self.predictions, self.dropout_evaluator.
\* The call in progress: pc is "idle" between calls and "returned" when a
\* call has ended and its caller holds the outcome: op (the call and its
\* arguments), raised (the exception, or None), sel (best_frames), out (what
\* the call computed, returned and wrote), cap and writer (the cv2 handles
\* the call opened).
VARIABLES image_arr, predictions, dropout_evaluator,
          pc, cap, writer, op, raised, sel, out

vars == <<image_arr, predictions, dropout_evaluator,
          pc, cap, writer, op, raised, sel, out>>

\* Longest video (number of decodable frames) an input file holds.
MaxFrames == 2

\* Number of distinct video files on disk.
NumVideos == 2

\* Largest `runs` argument given to a direct get_uncertainty call.
MaxRuns == 2

\* num_classes=3, the constructor's default.
num_classes == 3

\* runs=10, the run count cam_important_frames passes to get_uncertainty.
CamRuns == 10

\* self.models: the ensemble, as the model indices of a two-member ensemble.
Models == 0 .. 1

Classes == 0 .. (num_classes - 1)

\* threshold arguments (percent); 50 is a value a mean prediction can equal.
Thresholds == {25, 50}

\* nr_cams / n_return arguments.
NrCams == 0 .. (MaxFrames + 1)

\* cam_dims arguments: the default (224, 224) and the gauge's (1000, 1000).
CamDims == {<<224, 224>>, <<1000, 1000>>}

\* uncertainty_method arguments other than None.
Methods == {"epistemic", "aleatoric", "bogus"}

\* Python's None, for the string-valued arguments and for `raised`.
None == "None"

\* An optional value: Absent (an attribute not yet assigned, an argument or a
\* result that is None) or Have(x).
Absent == <<>>
Have(x) == <<x>>
Val(o) == o[1]

At(s, i) == s[i + 1]

Range(s) == {s[i] : i \in DOMAIN s}

RECURSIVE SumSeq(_)
SumSeq(s) == IF s = <<>> THEN 0 ELSE s[1] + SumSeq(Tail(s))

\* A model's output for one frame: a distribution over the classes (percent).
Dists == {<<100, 0, 0>>, <<0, 100, 0>>}

\* np.argmax of a non-empty 1-d array: the first index of the maximum.
ArgMax(s) ==
    CHOOSE i \in 0 .. (Len(s) - 1) :
        /\ \A k \in 0 .. (Len(s) - 1) : At(s, k) <= At(s, i)
        /\ \A k \in 0 .. (i - 1) : At(s, k) < At(s, i)

\* len(predictions[0]): the frame axis of the (models, frames, classes) array.
FrameCount(preds) == Len(preds[1])

\* The model-axis sum behind np.mean(self.predictions, axis=0): entry [f][c]
\* is NumModels times the mean prediction of frame f for class c.
MeanPredsSum(preds) ==
    [f \in 1 .. FrameCount(preds) |->
        [c \in 1 .. num_classes |->
            SumSeq([m \in 1 .. Len(preds) |-> preds[m][f][c]])]]

\* class_idx = np.argmax(np.mean(mean_preds, axis=0)); the argmax of the
\* per-class means over the frames is the argmax of the per-class sums, and
\* of an all-nan vector (no frames) it is 0.
ClassIdx(preds) ==
    LET mp == MeanPredsSum(preds)
    IN ArgMax([c \in 1 .. num_classes |->
                 SumSeq([f \in 1 .. Len(mp) |-> mp[f][c]])])

\* mean_preds[:, class_idx], as sums over the models.
FrameScores(preds) ==
    LET mp == MeanPredsSum(preds) ci == ClassIdx(preds)
    IN [f \in 1 .. Len(mp) |-> At(mp[f], ci)]

\* np.where(scores >= bound)[0].
RECURSIVE WhereGreaterEqual(_, _, _)
WhereGreaterEqual(scores, bound, from) ==
    IF from >= Len(scores) THEN <<>>
    ELSE (IF At(scores, from) >= bound THEN <<from>> ELSE <<>>)
         \o WhereGreaterEqual(scores, bound, from + 1)

\* np.where(mean_preds[:, class_idx] > threshold)[0]: the indices, ascending.
RECURSIVE WhereGreater(_, _, _)
WhereGreater(scores, bound, from) ==
    IF from >= Len(scores) THEN <<>>
    ELSE (IF At(scores, from) > bound THEN <<from>> ELSE <<>>)
         \o WhereGreater(scores, bound, from + 1)

ThresholdFrames(preds, threshold) ==
    WhereGreater(FrameScores(preds), threshold * Len(preds), 0)

\* np.argsort(scores) with the default kind ('quicksort', not a stable sort):
\* a permutation of the indices with ascending scores; the order among equal
\* scores is whatever the build's sort produces.
ArgSorts(scores) ==
    LET n == Len(scores)
    IN {p \in [1 .. n -> 0 .. (n - 1)] :
          /\ \A i, k \in 1 .. n : i # k => p[i] # p[k]
          /\ \A i \in 1 .. (n - 1) : At(scores, p[i]) <= At(scores, p[i + 1])}

\* The Python slice s[-k:].  -0 is 0, so s[-0:] is s[0:], the whole list; for
\* k > 0 the last min(k, len) elements; for k < 0 the elements from index -k.
LastSlice(s, k) ==
    LET n == Len(s)
        start == IF k = 0 THEN 0
                 ELSE IF k > 0 THEN (IF k >= n THEN 0 ELSE n - k)
                 ELSE (IF -k >= n THEN n ELSE -k)
    IN SubSeq(s, start + 1, n)

\* The values best_frames can take (lines 95-98).
BestFrames(preds, threshold, nr_cams) ==
    IF nr_cams # Absent
    THEN {LastSlice(p, Val(nr_cams)) : p \in ArgSorts(FrameScores(preds))}
    ELSE {ThresholdFrames(preds, threshold)}

\* The highest-probability model of a frame (lines 122-124).
ModelIdx(preds, b_frame, class_idx) ==
    ArgMax([m \in 1 .. Len(preds) |-> At(At(preds[m], b_frame), class_idx)])

\* compute_cam (lines 160-185): the activation map of in_img under one model
\* and class, at the requested output size.
compute_cam(in_img, model_idx, class_idx, out_size) ==
    <<"cam", in_img, model_idx, class_idx, out_size>>

\* cv2.resize(self.image_arr[idx], cam_dims) * 255 (lines 109-111).
Resized(img, cam_dims) == <<"resized", img, cam_dims>>

\* overlay_precision_gauge(frame, precision) (lines 148-150).
overlay_precision_gauge(frame, precision) == <<"gauge", frame, precision>>

\* next(self.augmentor.flow(image)): the draw-th random augmentation of image.
Augmented(image, draw) == <<"aug", image, draw>>

\* get_uncertainty (lines 217-256).  has_dropout: self.dropout_evaluator
\* exists.  value is the returned (precision, pred_class) pair, or Absent
\* for the bare `return` of the unknown-method branch; input_images is the
\* batch fed to the model and augment_calls the number of augmentor draws.
get_uncertainty(model_idx, image, runs, method, has_dropout) ==
    IF method = "epistemic"
    THEN IF ~has_dropout
         THEN [raised |-> "AttributeError", value |-> Absent,
               augment_calls |-> 0, input_images |-> <<>>]
         ELSE [raised |-> None,
               value |-> Have(<<<<"precision", "dropout", model_idx, image>>,
                                "pred_class">>),
               augment_calls |-> 0,
               input_images |-> [r \in 1 .. runs |-> image]]
    ELSE IF method = "aleatoric"
    THEN LET augmented == Augmented(image, 1)
         IN [raised |-> None,
             value |-> Have(<<<<"precision", "standard", model_idx,
                                augmented>>, "pred_class">>),
             augment_calls |-> 1,
             input_images |-> [r \in 1 .. runs |-> augmented]]
    ELSE [raised |-> None, value |-> Absent,
          augment_calls |-> 0, input_images |-> <<>>]

\* Lines 78-81: the uncertainty gauge is drawn for (1000, 1000) output only.
RejectsEpistemicOnly(uncertainty_method, cam_dims) ==
    uncertainty_method = "epistemic" /\ cam_dims # <<1000, 1000>>

RejectsConfig(uncertainty_method, cam_dims) ==
    uncertainty_method # None /\ cam_dims # <<1000, 1000>>

\* Lines 143-150 with the frame at position j of `frames` stored at index j
\* of the output instead of index best_frames[j].
OutputFramesByPosition(copied_arr, best_frames, frames) ==
    [i \in 1 .. Len(copied_arr) |->
        IF i <= Len(frames) THEN frames[i] ELSE copied_arr[i]]

\* Lines 143-150: copied_arr[best_frames[j]] = frames[j] for j in order (a
\* later j overwrites an earlier one with the same index).
OutputFrames(copied_arr, best_frames, frames) ==
    LET n == Len(best_frames)
        last_j(i) == CHOOSE j \in 1 .. n :
                        /\ best_frames[j] = i - 1
                        /\ \A k \in (j + 1) .. n : best_frames[k] # i - 1
    IN [i \in 1 .. Len(copied_arr) |->
          IF (i - 1) \in Range(best_frames)
          THEN frames[last_j(i)] ELSE copied_arr[i]]

\* An injected failure of an external collaborator inside one call:
\* <<where, n>> makes the n-th call of `where` raise; <<"none", 0>> none.
Faults ==
    {<<"none", 0>>} \cup
    ({"compute_cam", "get_uncertainty", "write"} \X (1 .. MaxFrames))

\* What a cam_important_frames call leaves behind when it got nowhere.
NoOut ==
    [resized |-> <<>>, cams |-> <<>>, precisions |-> <<>>,
     returned |-> Absent, written |-> <<>>]

\* The first position of errors that holds an exception (not None), or 0:
\* where a loop whose iteration j raises errors[j] stops.
FirstError(errors) ==
    IF \E j \in DOMAIN errors : errors[j] # None
    THEN CHOOSE j \in DOMAIN errors :
            errors[j] # None /\ \A k \in 1 .. (j - 1) : errors[k] = None
    ELSE 0

\* cam_important_frames (lines 78-158) on an instance whose attributes are
\* self_image, self_preds (optional) and has_dropout, with best_frames the
\* value lines 95-98 produced.  The result: the exception raised (or None),
\* whether self.dropout_evaluator exists afterwards, best_frames if it was
\* computed, the writer handle, and what was computed and written.
CamRun(self_image, self_preds, has_dropout, a, best_frames, fault) ==
    LET method == a.uncertainty_method
        dims == a.cam_dims
        dropout == has_dropout \/ method = "epistemic"
        stop(err, d, s) ==
            [raised |-> err, dropout |-> d, sel |-> s,
             writer |-> "none", out |-> NoOut]
    IN
    IF RejectsConfig(method, dims)
    THEN stop("ValueError", has_dropout, Absent)
    ELSE IF self_preds = Absent
    THEN stop("AttributeError", dropout, Absent)
    ELSE IF self_image = Absent
    THEN stop("AttributeError", dropout, Have(best_frames))
    ELSE
    LET preds == Val(self_preds)
        images == Val(self_image)
        class_idx == ClassIdx(preds)
        n == Len(best_frames)
        \* lines 105-111
        copied_arr == [i \in 1 .. Len(images) |-> Resized(images[i], dims)]
        \* lines 120-137, iteration j
        model_idx(j) == ModelIdx(preds, best_frames[j], class_idx)
        in_img(j) == At(images, best_frames[j])
        cam(j) == compute_cam(in_img(j), model_idx(j), class_idx, dims)
        unc(j) == get_uncertainty(model_idx(j), in_img(j), CamRuns,
                                  method, dropout)
        frame_error(j) ==
            IF best_frames[j] >= Len(images) THEN "IndexError"
            ELSE IF fault = <<"compute_cam", j>> THEN "Exception"
            ELSE IF method = None THEN None
            ELSE IF fault = <<"get_uncertainty", j>> THEN "Exception"
            ELSE unc(j).raised
        fail_j == FirstError([j \in 1 .. n |-> frame_error(j)])
        cams_n == IF fail_j = 0 THEN n
                  ELSE IF best_frames[fail_j] < Len(images)
                          /\ fault # <<"compute_cam", fail_j>>
                       THEN fail_j
                       ELSE fail_j - 1
        prec_n == IF method = None THEN 0
                  ELSE IF fail_j = 0 THEN n ELSE fail_j - 1
        cams == [j \in 1 .. cams_n |-> cam(j)]
        precision_best_frames == [j \in 1 .. prec_n |-> unc(j).value]
        computed == [resized |-> copied_arr, cams |-> cams,
                     precisions |-> precision_best_frames,
                     returned |-> Absent, written |-> <<>>]
        \* lines 143-150, iteration j: precision_best_frames[j][0]
        overlay_error(j) ==
            IF method # None /\ precision_best_frames[j] = Absent
            THEN "TypeError" ELSE None
        replaced(j) ==
            IF method # None
            THEN overlay_precision_gauge(cams[j],
                                         Val(precision_best_frames[j])[1])
            ELSE cams[j]
        video == OutputFrames(copied_arr, best_frames,
                              [j \in 1 .. n |-> replaced(j)])
        \* lines 156-157
        write_n == IF fault[1] = "write" /\ fault[2] <= Len(video)
                   THEN fault[2] - 1 ELSE Len(video)
    IN
    IF fail_j # 0
    THEN [raised |-> frame_error(fail_j), dropout |-> dropout,
          sel |-> Have(best_frames), writer |-> "none", out |-> computed]
    ELSE IF a.save_video_path = None
    THEN [raised |-> None, dropout |-> dropout, sel |-> Have(best_frames),
          writer |-> "none",
          out |-> [computed EXCEPT !.returned = Have(cams)]]
    ELSE IF FirstError([j \in 1 .. n |-> overlay_error(j)]) # 0
    THEN [raised |-> "TypeError", dropout |-> dropout,
          sel |-> Have(best_frames), writer |-> "none", out |-> computed]
    ELSE [raised |-> IF write_n < Len(video) THEN "Exception" ELSE None,
          dropout |-> dropout, sel |-> Have(best_frames),
          writer |-> IF write_n < Len(video) THEN "open" ELSE "released",
          out |-> [computed EXCEPT !.written = SubSeq(video, 1, write_n)]]

\* self.preprocess(frame)[0] of the idx-th decoded frame of a video file.
Preprocess(video, idx) == <<"img", video, idx>>

\* read_video (lines 197-209).  exists: os.path.exists(video_path); frames:
\* how many frames cap.read() delivers before ret != 1; bad: the decoded
\* frame (1-based) on which self.preprocess raises, 0 for none.  cap is the
\* decoding handle when the call ends.
read_video(video, exists, frames, bad) ==
    IF ~exists
    THEN [raised |-> "AssertionError", cap |-> "none", images |-> <<>>]
    ELSE IF bad \in 1 .. frames
    THEN [raised |-> "Exception", cap |-> "open", images |-> <<>>]
    ELSE [raised |-> None, cap |-> "released",
          images |-> [i \in 1 .. frames |-> Preprocess(video, i)]]

\* The (models, frames, classes) arrays np.stack can build from the models'
\* predict outputs on `frames` frames.
PredictionArrays(frames) ==
    [1 .. Cardinality(Models) -> [1 .. frames -> Dists]]

\* The instance after __init__: neither image_arr, predictions nor
\* dropout_evaluator is assigned, and no operation has run.
Init ==
    /\ image_arr = Absent
    /\ predictions = Absent
    /\ dropout_evaluator = FALSE
    /\ pc = "idle"
    /\ cap = "none"
    /\ writer = "none"
    /\ op = [name |-> "idle"]
    /\ raised = None
    /\ sel = Absent
    /\ out = NoOut

\* __call__ (lines 49-55) whose read_video raises: nothing is assigned.
CallReadFails ==
    /\ pc = "idle"
    /\ \E video \in 1 .. NumVideos, exists \in BOOLEAN,
       frames \in 1 .. MaxFrames, bad \in 0 .. MaxFrames :
        LET r == read_video(video, exists, frames, bad)
        IN /\ r.raised # None
           /\ pc' = "returned"
           /\ op' = [name |-> "__call__", video |-> video]
           /\ raised' = r.raised
           /\ cap' = r.cap
           /\ writer' = "none"
           /\ sel' = Absent
           /\ out' = NoOut
           /\ UNCHANGED <<image_arr, predictions, dropout_evaluator>>

\* __call__ whose read_video returns and in which some model.predict raises
\* (line 51): self.image_arr is already assigned (line 49), self.predictions
\* is not.
CallPredictFails ==
    /\ pc = "idle"
    /\ \E video \in 1 .. NumVideos, frames \in 0 .. MaxFrames :
        LET r == read_video(video, TRUE, frames, 0)
        IN /\ pc' = "returned"
        /\ op' = [name |-> "__call__", video |-> video]
           /\ raised' = "Exception"
           /\ cap' = r.cap
           /\ writer' = "none"
           /\ image_arr' = Have(r.images)
           /\ sel' = Absent
           /\ out' = NoOut
           /\ UNCHANGED <<predictions, dropout_evaluator>>

\* __call__ that returns: both attributes are assigned from the same video.
Call ==
    /\ pc = "idle"
    /\ \E video \in 1 .. NumVideos, frames \in 0 .. MaxFrames :
        LET r == read_video(video, TRUE, frames, 0)
        IN \E preds \in PredictionArrays(frames) :
           /\ pc' = "returned"
           /\ op' = [name |-> "__call__", video |-> video]
           /\ raised' = None
           /\ cap' = r.cap
           /\ writer' = "none"
           /\ image_arr' = Have(r.images)
           /\ predictions' = Have(preds)
           /\ sel' = Absent
           /\ out' = NoOut
           /\ UNCHANGED dropout_evaluator

\* The arguments of a cam_important_frames call: a threshold alone, or
\* nr_cams together with one threshold value.
CamArgs ==
    {a \in [threshold : Thresholds,
            nr_cams : {Absent} \cup {Have(k) : k \in NrCams},
            save_video_path : {None, "out"},
            uncertainty_method : {None} \cup Methods,
            cam_dims : CamDims] :
        a.nr_cams # Absent => a.threshold = 50}

\* cam_important_frames (lines 78-158), with its arguments drawn from args
\* and the failures of its collaborators from faults.
CamImportantFrames(args, faults) ==
    /\ pc = "idle"
    /\ \E a \in args, fault \in faults :
      \E best_frames \in
            (IF predictions = Absent THEN {<<>>}
             ELSE BestFrames(Val(predictions), a.threshold, a.nr_cams)) :
        LET run == CamRun(image_arr, predictions, dropout_evaluator, a,
                          best_frames, fault)
        IN /\ pc' = "returned"
           /\ op' = [name |-> "cam_important_frames", args |-> a]
           /\ raised' = run.raised
           /\ dropout_evaluator' = run.dropout
           /\ sel' = run.sel
           /\ writer' = run.writer
           /\ cap' = "none"
           /\ out' = run.out
           /\ UNCHANGED <<image_arr, predictions>>

cam_important_frames == CamImportantFrames(CamArgs, Faults)

\* important_frames(preds, predicted_class, n_return) (lines 211-215), given
\* the mean predictions __call__ returned for the current video.
important_frames ==
    /\ pc = "idle"
    /\ predictions # Absent
    /\ \E predicted_class \in Classes, n_return \in NrCams :
        LET mp == MeanPredsSum(Val(predictions))
            frame_scores == [f \in 1 .. Len(mp) |-> At(mp[f], predicted_class)]
        IN \E sorted \in ArgSorts(frame_scores) :
           /\ pc' = "returned"
           /\ op' = [name |-> "important_frames",
                     predicted_class |-> predicted_class,
                     n_return |-> n_return]
           /\ raised' = None
           /\ sel' = Have(LastSlice(sorted, n_return))
           /\ out' = NoOut
           /\ cap' = "none"
           /\ writer' = "none"
           /\ UNCHANGED <<image_arr, predictions, dropout_evaluator>>

\* make_dropout_evaluator (lines 187-195).
make_dropout_evaluator ==
    /\ pc = "idle"
    /\ pc' = "returned"
    /\ op' = [name |-> "make_dropout_evaluator"]
    /\ raised' = None
    /\ dropout_evaluator' = TRUE
    /\ sel' = Absent
    /\ out' = NoOut
    /\ cap' = "none"
    /\ writer' = "none"
    /\ UNCHANGED <<image_arr, predictions>>

\* A direct get_uncertainty(model_idx, image, runs, method) call (lines
\* 217-256) on a frame of the current video.
GetUncertainty ==
    /\ pc = "idle"
    /\ image_arr # Absent
    /\ \E model_idx \in Models, i \in 1 .. Len(Val(image_arr)),
          runs \in 1 .. MaxRuns, method \in Methods :
        LET r == get_uncertainty(model_idx, Val(image_arr)[i], runs, method,
                                 dropout_evaluator)
        IN /\ pc' = "returned"
        /\ op' = [name |-> "get_uncertainty", runs |-> runs,
                     method |-> method]
           /\ raised' = r.raised
           /\ sel' = Absent
           /\ out' = [value |-> r.value, augment_calls |-> r.augment_calls,
                      input_images |-> r.input_images]
           /\ cap' = "none"
           /\ writer' = "none"
           /\ UNCHANGED <<image_arr, predictions, dropout_evaluator>>

\* The caller takes the outcome of the call that ended; the instance keeps
\* only its attributes.
Return ==
    /\ pc = "returned" /\ pc' = "idle"
    /\ op' = [name |-> "idle"]
    /\ raised' = None
    /\ sel' = Absent
    /\ out' = NoOut
    /\ cap' = "none"
    /\ writer' = "none"
    /\ UNCHANGED <<image_arr, predictions, dropout_evaluator>>

Next ==
    \/ Return
    \/ Call
    \/ CallReadFails
    \/ CallPredictFails
    \/ cam_important_frames
    \/ important_frames
    \/ make_dropout_evaluator
    \/ GetUncertainty

Spec == Init /\ [][Next]_vars

\* cam_important_frames on an instance that has evaluated a video: the
\* initial states are the instances a first, returned __call__ leaves behind.
InitCam ==
    /\ \E frames \in 0 .. MaxFrames :
         LET r == read_video(1, TRUE, frames, 0)
         IN /\ image_arr = Have(r.images)
            /\ predictions \in {Have(p) : p \in PredictionArrays(frames)}
    /\ dropout_evaluator = FALSE
    /\ pc = "idle"
    /\ cap = "none"
    /\ writer = "none"
    /\ op = [name |-> "idle"]
    /\ raised = None
    /\ sel = Absent
    /\ out = NoOut

\* cam_important_frames with collaborators that do not fail.
cam_important_frames_ok ==
    CamImportantFrames(CamArgs, {<<"none", 0>>})

NextCam ==
    \/ Return
    \/ cam_important_frames_ok

SpecCam == InitCam /\ [][NextCam]_vars

----------------------------------------------------------------------------
\* The claims.

\* The call that has just ended is cam_important_frames.
CamReturned == pc = "returned" /\ op.name = "cam_important_frames"

\* NumModels times the mean prediction of frame f (0-based) for class c.
ScoreOf(f, c) ==
    LET preds == Val(predictions)
    IN SumSeq([m \in 1 .. Len(preds) |-> preds[m][f + 1][c + 1]])

Frames == 0 .. (FrameCount(Val(predictions)) - 1)

NumModels == Cardinality(Models)

Min(a, b) == IF a <= b THEN a ELSE b

\* C1: in threshold mode (nr_cams is None) a frame index is selected if and
\* only if its mean prediction for class_idx is strictly greater than the
\* threshold; a frame whose mean equals the threshold is not selected.
C1_ThresholdSelection ==
    (CamReturned /\ op.args.nr_cams = Absent /\ sel # Absent) =>
        \A f \in Frames :
            (f \in Range(Val(sel))) <=>
            (ScoreOf(f, ClassIdx(Val(predictions)))
                > op.args.threshold * NumModels)

\* C1's case: a threshold run in which one frame lies exactly on the
\* threshold and is left out while another frame is selected.
C1_Witness ==
    /\ CamReturned /\ op.args.nr_cams = Absent /\ sel # Absent
    /\ \E f, g \in Frames :
        /\ ScoreOf(f, ClassIdx(Val(predictions)))
              = op.args.threshold * NumModels
        /\ f \notin Range(Val(sel))
        /\ g \in Range(Val(sel))

\* Top-k mode of the call that has just ended, and its k.
TopK ==
    \/ CamReturned /\ op.args.nr_cams # Absent /\ sel # Absent
    \/ pc = "returned" /\ op.name = "important_frames"

K == IF op.name = "important_frames" THEN op.n_return
     ELSE Val(op.args.nr_cams)

\* C2: top-k selection (cam_important_frames with nr_cams = k, and
\* important_frames with n_return = k) returns exactly min(k, F) frame
\* indices, for every k >= 0; for k = 0 it returns none.
C2_TopKCount ==
    TopK => Len(Val(sel)) = Min(K, Cardinality(Frames))

\* The arguments of the cam_important_frames call that has just ended ask
\* for uncertainty at an output size other than (1000, 1000).
BadConfig ==
    /\ op.args.uncertainty_method # None
    /\ op.args.cam_dims # <<1000, 1000>>

\* C3: a cam_important_frames call with uncertainty_method not None and
\* cam_dims other than (1000, 1000) is rejected (ValueError is the code's
\* configuration error) before anything else happens: no dropout evaluator is
\* constructed, best_frames is not computed, no frame is resized, no CAM or
\* uncertainty is computed, no writer is opened, and image_arr and
\* predictions are unchanged.
C3_ConfigRejected ==
    [][(pc = "idle" /\ op'.name = "cam_important_frames" /\ BadConfig') =>
         /\ raised' = "ValueError"
         /\ sel' = Absent
         /\ out' = NoOut
         /\ writer' = "none"
         /\ UNCHANGED <<image_arr, predictions, dropout_evaluator>>]_vars

\* C3's case: an epistemic request at (224, 224) on an instance that holds a
\* video with frames and no dropout evaluator, rejected.
C3_Witness ==
    /\ CamReturned /\ BadConfig
    /\ op.args.uncertainty_method = "epistemic"
    /\ raised = "ValueError"
    /\ ~dropout_evaluator
    /\ image_arr # Absent /\ Len(Val(image_arr)) > 0

\* C4: the decoding handle read_video opens and the encoding handle
\* cam_important_frames opens are released before the call that opened them
\* ends, on every exit path.
C4_HandlesReleased ==
    pc = "returned" => (cap # "open" /\ writer # "open")

\* C5: a cam_important_frames run with an unknown uncertainty method at
\* (1000, 1000) on a properly evaluated video completes, with or without
\* save_video_path, unless a collaborator fails, and holds no uncertainty
\* result for each selected frame.
C5_UnknownMethodRecoverable ==
    (/\ CamReturned /\ sel # Absent
     /\ Len(Val(image_arr)) = Cardinality(Frames)
     /\ op.args.uncertainty_method = "bogus"
     /\ op.args.cam_dims = <<1000, 1000>>
     /\ raised # "Exception") =>
        /\ raised = None
        /\ Len(out.precisions) = Len(Val(sel))
        /\ \A j \in 1 .. Len(out.precisions) : out.precisions[j] = Absent

\* C6: when computing the activation map or the uncertainty of one selected
\* frame fails, the explanation (and the uncertainty, if requested) of every
\* other selected frame is still computed.
C6_FrameFailureLocal ==
    (CamReturned /\ sel # Absent /\ raised = "Exception" /\ writer = "none") =>
        /\ Len(out.cams) >= Len(Val(sel)) - 1
        /\ op.args.uncertainty_method # None =>
              Len(out.precisions) >= Len(Val(sel)) - 1

\* C7: after any sequence of __call__ invocations, succeeding or failing,
\* every frame index a cam_important_frames call selects is a valid index
\* into image_arr and into the frame axis of predictions.
C7_SelectedIndicesValid ==
    (CamReturned /\ sel # Absent /\ image_arr # Absent) =>
        \A b \in Range(Val(sel)) :
            /\ b \in 0 .. (Len(Val(image_arr)) - 1)
            /\ b \in Frames

\* C8: a cam_important_frames call with save_video_path that completes has
\* written one output frame per frame of image_arr, in order: at a selected
\* index the frame's activation map (under the precision gauge when an
\* uncertainty method was given), at every other index the resized original.
C8_WrittenVideo ==
    (CamReturned /\ op.args.save_video_path # None /\ raised = None) =>
        LET images == Val(image_arr)
            dims == op.args.cam_dims
            map(i) == IF op.args.uncertainty_method = None
                      THEN out.written[i]
                      ELSE out.written[i][2]
        IN /\ Len(out.written) = Len(images)
           /\ \A i \in 1 .. Len(images) :
                IF (i - 1) \in Range(Val(sel))
                THEN /\ op.args.uncertainty_method # None =>
                            out.written[i][1] = "gauge"
                     /\ map(i)[1] = "cam"
                     /\ map(i)[2] = images[i]
                     /\ map(i)[5] = dims
                ELSE out.written[i] = <<"resized", images[i], dims>>

\* C8's case: a video written with the gauge, one frame replaced by its
\* activation map and a later-or-earlier frame left as the resized original.
C8_Witness ==
    /\ CamReturned /\ op.args.save_video_path # None /\ raised = None
    /\ op.args.uncertainty_method = "aleatoric"
    /\ \E i, k \in 1 .. Len(out.written) :
        /\ (i - 1) \in Range(Val(sel))
        /\ (k - 1) \notin Range(Val(sel))
        /\ i > k

\* C9: get_uncertainty with method 'aleatoric' and runs = n draws from the
\* augmentor once per run, so that the n inputs fed to the model are n
\* separately augmented copies of the frame.
C9_AugmentPerRun ==
    (/\ pc = "returned" /\ op.name = "get_uncertainty"
     /\ op.method = "aleatoric" /\ raised = None) =>
        /\ out.augment_calls = op.runs
        /\ Len(out.input_images) = op.runs
        /\ \A r, q \in 1 .. op.runs :
              r # q => out.input_images[r] # out.input_images[q]

\* C10: in threshold mode the selected indices are in ascending frame-index
\* order; in top-k mode (whenever nr_cams is given) they are in ascending
\* order of mean prediction, frames of equal score in ascending index order.
C10_SelectionOrder ==
    (CamReturned /\ sel # Absent) =>
        LET s == Val(sel)
            score(f) == ScoreOf(f, ClassIdx(Val(predictions)))
        IN \A i, j \in 1 .. Len(s) :
              i < j =>
                IF op.args.nr_cams = Absent
                THEN s[i] < s[j]
                ELSE \/ score(s[i]) < score(s[j])
                     \/ score(s[i]) = score(s[j]) /\ s[i] < s[j]

====
